---- MODULE Spec2Model ----
(***************************************************************************)
(* Primitive recursive function interpreter (prf.py, examples.py).         *)
(*                                                                         *)
(* A callable object is a record tagged with its class ("kind") and its    *)
(* instance fields.  Calling an object either returns a value or raises    *)
(* an exception; an outcome is Return(v) or Raise(e).  The operators       *)
(* X_call model the __call__ methods, Call models the call expression      *)
(* f(args...), which binds the arguments to the method's signature and       *)
(* raises TypeError when they do not fit.                                  *)
(***************************************************************************)
EXTENDS Integers, Sequences, FiniteSets, TLC

\* ------------------------------------------------------------------------
\* Bounds of the model
\* ------------------------------------------------------------------------
MaxVal == 3        \* argument values of applied nodes are 0..MaxVal
MaxArgs == 2       \* applied argument tuples have length 0..MaxArgs
MaxInner == 2      \* composed nodes have 0..MaxInner inner functions
MaxNat == 8        \* operands of add, mult and monus are 0..MaxNat
MaxPair == 6       \* components of encoded pairs are 0..MaxPair
MaxBound == 5      \* search bounds given to bmin are 0..MaxBound
MaxNeg == 2        \* negative recursion arguments are -MaxNeg..-1
MaxRec == 4        \* recursion arguments of the stepped evaluation

\* ------------------------------------------------------------------------
\* Outcomes of a call
\* ------------------------------------------------------------------------
Return(v) == [tag |-> "return", val |-> v]
Raise(e) == [tag |-> "raise", exc |-> e]
Returned(r) == r.tag = "return"
Raised(r) == r.tag = "raise"

\* ------------------------------------------------------------------------
\* Objects
\* ------------------------------------------------------------------------
zero == [kind |-> "Zero"]
succ == [kind |-> "Succ"]
proj(i) == [kind |-> "Proj", index |-> i]
compose(f, gs) == [kind |-> "Compose", f |-> f, gs |-> gs]
prim_rec(base, step) == [kind |-> "PrimRec", base |-> base, step |-> step]
monus == [kind |-> "Monus"]
bmin == [kind |-> "BoundedMin"]
NoObject == [kind |-> "None"]
cantor_w == [kind |-> "CantorW"]
snd == [kind |-> "Snd"]
fst == [kind |-> "Fst"]
\* lambda w: 1 if tri(succ(w)) > p else 0, closed over p
exceeds(p) == [kind |-> "exceeds", p |-> p]
\* a caller's predicate lambda k: ..., given by its values at k = 0, 1, ...
lambda_k(values) == [kind |-> "lambda", values |-> values]

add == prim_rec(proj(0), compose(succ, <<proj(1)>>))
mult == prim_rec(compose(zero, <<>>), compose(add, <<proj(1), proj(2)>>))
pred == prim_rec(zero, proj(0))
monus_helper == prim_rec(proj(0), compose(pred, <<proj(1)>>))
tri == prim_rec(zero, compose(add, <<proj(1), compose(succ, <<proj(0)>>)>>))
pair == compose(add, <<compose(tri, <<add>>), proj(1)>>)

\* ------------------------------------------------------------------------
\* Calls
\* ------------------------------------------------------------------------
RECURSIVE Call(_, _)
RECURSIVE Compose_inner(_, _, _, _)
RECURSIVE PrimRec_loop(_, _, _, _, _)
RECURSIVE BoundedMin_scan(_, _, _)
RECURSIVE BoundedMin_scan_down(_, _, _)

\* def __call__(self): return 0
Zero_call == Return(0)

\* def __call__(self, n): return n + 1
Succ_call(n) == Return(n + 1)

\* Variant: the range check is off by one (index + 1 >= len(args)).
Proj_call_offbyone(self, args) ==
  IF self.index + 1 >= Len(args)
  THEN Raise("IndexError")
  ELSE Return(args[self.index + 1])

\* def __call__(self, args...): IndexError when index >= len(args)
Proj_call(self, args) ==
  IF self.index >= Len(args)
  THEN Raise("IndexError")
  ELSE Return(args[self.index + 1])

\* inner_results = [g(args...) for g in self.gs], the results so far in acc
Compose_inner(gs, args, i, acc) ==
  IF i > Len(gs)
  THEN Return(acc)
  ELSE LET r == Call(gs[i], args)
       IN IF Raised(r) THEN r ELSE Compose_inner(gs, args, i + 1, Append(acc, r.val))

\* Variant: the i-th inner function receives only the i-th argument.
Compose_call_pointwise(self, args) ==
  IF Len(self.gs) = 0
  THEN Call(self.f, <<>>)
  ELSE LET rs == [i \in 1..Len(self.gs) |->
                    Call(self.gs[i], IF i <= Len(args) THEN <<args[i]>> ELSE <<>>)]
       IN IF \E i \in 1..Len(rs) : Raised(rs[i])
          THEN rs[CHOOSE i \in 1..Len(rs) : Raised(rs[i]) /\ \A j \in 1..(i - 1) : Returned(rs[j])]
          ELSE Call(self.f, [i \in 1..Len(rs) |-> rs[i].val])

Compose_call(self, args) ==
  IF Len(self.gs) = 0
  THEN Call(self.f, <<>>)
  ELSE LET inner_results == Compose_inner(self.gs, args, 1, <<>>)
       IN IF Raised(inner_results)
          THEN inner_results
          ELSE Call(self.f, inner_results.val)

\* for k in range(n): acc = self.step(k, acc, xs...)
PrimRec_loop(step, n, xs, k, acc) ==
  IF k >= n
  THEN Return(acc)
  ELSE LET r == Call(step, <<k, acc>> \o xs)
       IN IF Raised(r) THEN r ELSE PrimRec_loop(step, n, xs, k + 1, r.val)

\* Variant: the loop counts k = 1..n (range(1, n + 1)).
PrimRec_call_from1(self, n, xs) ==
  LET acc == Call(self.base, xs)
  IN IF Raised(acc) THEN acc ELSE PrimRec_loop(self.step, n + 1, xs, 1, acc.val)

PrimRec_call(self, n, xs) ==
  LET acc == Call(self.base, xs)
  IN IF Raised(acc) THEN acc ELSE PrimRec_loop(self.step, n, xs, 0, acc.val)

\* Variant: the arguments are not swapped.
Monus_call_noswap(a, b) == Call(monus_helper, <<a, b>>)

\* def __call__(self, a, b): return _monus_helper(b, a)
Monus_call(a, b) == Call(monus_helper, <<b, a>>)

\* for k in range(n): if p(k) == 1: return k
BoundedMin_scan(p, n, k) ==
  IF k >= n
  THEN Return(n)
  ELSE LET r == Call(p, <<k>>)
       IN IF Raised(r)
          THEN r
          ELSE IF r.val = 1 THEN Return(k) ELSE BoundedMin_scan(p, n, k + 1)

\* Variant: the scan runs k = n-1, ..., 0 (reversed(range(n))).
BoundedMin_scan_down(p, n, k) ==
  IF k < 0
  THEN Return(n)
  ELSE LET r == Call(p, <<k>>)
       IN IF Raised(r)
          THEN r
          ELSE IF r.val = 1 THEN Return(k) ELSE BoundedMin_scan_down(p, n, k - 1)

BoundedMin_call_down(p, n) == BoundedMin_scan_down(p, n, n - 1)

BoundedMin_call(p, n) == BoundedMin_scan(p, n, 0)

\* Variant: the comparison is >= instead of >.
exceeds_call_geq(self, w) ==
  LET t == Call(tri, <<w + 1>>)
  IN IF Raised(t) THEN t ELSE Return(IF t.val >= self.p THEN 1 ELSE 0)

\* lambda w: 1 if tri(succ(w)) > p else 0
exceeds_call(self, w) ==
  LET t == Call(tri, <<w + 1>>)
  IN IF Raised(t) THEN t ELSE Return(IF t.val > self.p THEN 1 ELSE 0)

\* a caller's lambda k: its value at k
lambda_call(self, k) == Return(self.values[k + 1])

\* return bmin(exceeds, succ(p))
CantorW_call(p) == BoundedMin_call(exceeds(p), p + 1)

\* w = _cantor_w(p); return monus(p, tri(w))
Snd_call(p) ==
  LET w == Call(cantor_w, <<p>>)
  IN IF Raised(w)
     THEN w
     ELSE LET t == Call(tri, <<w.val>>)
          IN IF Raised(t) THEN t ELSE Call(monus, <<p, t.val>>)

\* w = _cantor_w(p); return monus(w, snd(p))
Fst_call(p) ==
  LET w == Call(cantor_w, <<p>>)
  IN IF Raised(w)
     THEN w
     ELSE LET s == Call(snd, <<p>>)
          IN IF Raised(s) THEN s ELSE Call(monus, <<w.val, s.val>>)

\* Variant: Succ takes surplus arguments (def __call__(self, n, rest...)).
AcceptsArgs_lenient(f, n) ==
  CASE f.kind = "Zero" -> n = 0
    [] f.kind = "Succ" -> n >= 1
    [] f.kind \in {"CantorW", "Snd", "Fst", "exceeds", "lambda"} -> n = 1
    [] f.kind \in {"Monus", "BoundedMin"} -> n = 2
    [] f.kind = "PrimRec" -> n >= 1
    [] f.kind \in {"Proj", "Compose"} -> TRUE

\* The number of positional arguments the __call__ signature of f accepts.
AcceptsArgs(f, n) ==
  CASE f.kind = "Zero" -> n = 0
    [] f.kind \in {"Succ", "CantorW", "Snd", "Fst", "exceeds", "lambda"} -> n = 1
    [] f.kind \in {"Monus", "BoundedMin"} -> n = 2
    [] f.kind = "PrimRec" -> n >= 1
    [] f.kind \in {"Proj", "Compose"} -> TRUE

\* f(args...)
Call(f, args) ==
  IF ~AcceptsArgs(f, Len(args))
  THEN Raise("TypeError")
  ELSE CASE f.kind = "Zero" -> Zero_call
         [] f.kind = "Succ" -> Succ_call(args[1])
         [] f.kind = "Proj" -> Proj_call(f, args)
         [] f.kind = "Compose" -> Compose_call(f, args)
         [] f.kind = "PrimRec" -> PrimRec_call(f, args[1], Tail(args))
         [] f.kind = "Monus" -> Monus_call(args[1], args[2])
         [] f.kind = "BoundedMin" -> BoundedMin_call(args[1], args[2])
         [] f.kind = "CantorW" -> CantorW_call(args[1])
         [] f.kind = "Snd" -> Snd_call(args[1])
         [] f.kind = "Fst" -> Fst_call(args[1])
         [] f.kind = "exceeds" -> exceeds_call(f, args[1])
         [] f.kind = "lambda" -> lambda_call(f, args[1])

\* ------------------------------------------------------------------------
\* Applying objects: one call from the prompt at a time
\* ------------------------------------------------------------------------
VARIABLES
  pc,        \* "idle" before a call, "running" during it, "done" after it
  f,         \* the object applied
  args,      \* its arguments
  outcome,   \* what the call returned or raised
  src,       \* the pair whose encoding args holds, <<>> otherwise
  stack,     \* stepped evaluation: the active calls, innermost last
  ret        \* stepped evaluation: the value handed back to the innermost call

vars == <<pc, f, args, outcome, src, stack, ret>>
applyVars == <<pc, f, args, outcome, src>>
stackVars == <<stack, ret>>

NoOutcome == [tag |-> "none"]

Tuples(S, n) == UNION {[1..m -> S] : m \in 0..n}
ArgTuples == Tuples(0..MaxVal, MaxArgs)

Leaves == {zero, succ} \cup {proj(i) : i \in 0..MaxArgs}
Inners == {zero, succ, proj(0), proj(1)}
Outers == Leaves \cup {compose(zero, <<>>), compose(succ, <<proj(0)>>), add, pred, mult}
Bases == {zero, succ, proj(0), proj(1), compose(zero, <<>>)}
Steps == {succ, proj(0), proj(1), proj(2), compose(succ, <<proj(1)>>),
          compose(add, <<proj(1), proj(2)>>), compose(add, <<proj(0), proj(1)>>)}
Composes == {compose(o, gs) : o \in Outers, gs \in Tuples(Inners, MaxInner)}
PrimRecs == {prim_rec(b, s) : b \in Bases, s \in Steps} \cup {add, mult, pred, tri}
Predicates == {lambda_k(v) : v \in [1..MaxBound -> 0..2]}

Init ==
  /\ pc = "idle"
  /\ f = NoObject
  /\ args = <<>>
  /\ outcome = NoOutcome
  /\ src = <<>>
  /\ stack = <<>>
  /\ ret = NoOutcome

Apply(g, a) ==
  /\ pc' = "done"
  /\ f' = g
  /\ args' = a
  /\ outcome' = Call(g, a)
  /\ src' = <<>>
  /\ UNCHANGED stackVars

ApplyLeaf ==
  /\ pc = "idle"
  /\ \E g \in Leaves, a \in ArgTuples : Apply(g, a)

ApplyCompose ==
  /\ pc = "idle"
  /\ \E g \in Composes, a \in ArgTuples : Apply(g, a)

ApplyPrimRec ==
  /\ pc = "idle"
  /\ \E g \in PrimRecs, a \in ArgTuples : Apply(g, a)

ApplyPrimRecNegative ==
  /\ pc = "idle"
  /\ \E g \in PrimRecs, n \in (-MaxNeg)..(-1), xs \in Tuples(0..MaxVal, MaxArgs - 1) :
       Apply(g, <<n>> \o xs)

ApplyBmin ==
  /\ pc = "idle"
  /\ \E p \in Predicates, n \in 0..MaxBound : Apply(bmin, <<p, n>>)

ApplyArith ==
  /\ pc = "idle"
  /\ \E g \in {add, mult, monus}, a, b \in 0..MaxNat : Apply(g, <<a, b>>)

ApplyPair ==
  /\ pc = "idle"
  /\ \E a, b \in 0..MaxPair : Apply(pair, <<a, b>>)

\* fst or snd applied to the value pair has just returned
Decode(g) ==
  /\ pc' = "done"
  /\ f' = g
  /\ args' = <<outcome.val>>
  /\ outcome' = Call(g, <<outcome.val>>)
  /\ src' = args
  /\ UNCHANGED stackVars

ApplyFst ==
  /\ pc = "done" /\ f = pair /\ Returned(outcome)
  /\ Decode(fst)

ApplySnd ==
  /\ pc = "done" /\ f = pair /\ Returned(outcome)
  /\ Decode(snd)

Reset ==
  /\ pc = "done"
  /\ pc' = "idle"
  /\ f' = NoObject
  /\ args' = <<>>
  /\ outcome' = NoOutcome
  /\ src' = <<>>
  /\ UNCHANGED stackVars

Next ==
  \/ ApplyLeaf
  \/ ApplyCompose
  \/ ApplyPrimRec
  \/ ApplyPrimRecNegative
  \/ ApplyBmin
  \/ ApplyArith
  \/ ApplyPair
  \/ ApplyFst
  \/ ApplySnd
  \/ Reset

Spec == Init /\ [][Next]_vars

Done == pc = "done"

\* ------------------------------------------------------------------------
\* Stepped evaluation: the same calls, one frame per active __call__
\* ------------------------------------------------------------------------
Frame(g, a) == [f |-> g, args |-> a, pc |-> "start", k |-> 0, acc |-> <<>>]

\* What a frame does next: call an object, return a value or raise.
CallEffect(fr, g, a) == [op |-> "call", fr |-> fr, callee |-> g, cargs |-> a]
ReturnEffect(v) == [op |-> "return", val |-> v]
RaiseEffect(e) == [op |-> "raise", exc |-> e]

Zero_step(fr, rv) == ReturnEffect(0)

Succ_step(fr, rv) == ReturnEffect(fr.args[1] + 1)

Proj_step(fr, rv) ==
  IF fr.f.index >= Len(fr.args)
  THEN RaiseEffect("IndexError")
  ELSE ReturnEffect(fr.args[fr.f.index + 1])

Compose_step(fr, rv) ==
  LET self == fr.f
  IN CASE fr.pc = "start" ->
            IF Len(self.gs) = 0
            THEN CallEffect([fr EXCEPT !.pc = "outer"], self.f, <<>>)
            ELSE CallEffect([fr EXCEPT !.pc = "inner"], self.gs[1], fr.args)
       [] fr.pc = "inner" ->
            LET inner_results == Append(fr.acc, rv.val)
            IN IF Len(inner_results) < Len(self.gs)
               THEN CallEffect([fr EXCEPT !.acc = inner_results],
                               self.gs[Len(inner_results) + 1], fr.args)
               ELSE CallEffect([fr EXCEPT !.pc = "outer", !.acc = inner_results],
                               self.f, inner_results)
       [] fr.pc = "outer" -> ReturnEffect(rv.val)

\* the loop head of for k in range(n), with k and acc as they are there
PrimRec_iterate(fr, k, acc) ==
  IF k >= fr.args[1]
  THEN ReturnEffect(acc)
  ELSE CallEffect([fr EXCEPT !.pc = "step", !.k = k, !.acc = acc],
                  fr.f.step, <<k, acc>> \o Tail(fr.args))

\* Variant: h(n, xs) computed by calling h(n - 1, xs) first.
PrimRec_step_recursive(fr, rv) ==
  LET n == fr.args[1]
      xs == Tail(fr.args)
  IN CASE fr.pc = "start" ->
            IF n <= 0
            THEN CallEffect([fr EXCEPT !.pc = "last"], fr.f.base, xs)
            ELSE CallEffect([fr EXCEPT !.pc = "rec"], fr.f, <<n - 1>> \o xs)
       [] fr.pc = "rec" ->
            CallEffect([fr EXCEPT !.pc = "last"], fr.f.step, <<n - 1, rv.val>> \o xs)
       [] fr.pc = "last" -> ReturnEffect(rv.val)

PrimRec_step(fr, rv) ==
  CASE fr.pc = "start" ->
         CallEffect([fr EXCEPT !.pc = "base"], fr.f.base, Tail(fr.args))
    [] fr.pc = "base" -> PrimRec_iterate(fr, 0, rv.val)
    [] fr.pc = "step" -> PrimRec_iterate(fr, fr.k + 1, rv.val)

Resume(fr, rv) ==
  CASE fr.f.kind = "Zero" -> Zero_step(fr, rv)
    [] fr.f.kind = "Succ" -> Succ_step(fr, rv)
    [] fr.f.kind = "Proj" -> Proj_step(fr, rv)
    [] fr.f.kind = "Compose" -> Compose_step(fr, rv)
    [] fr.f.kind = "PrimRec" -> PrimRec_step(fr, rv)

Top == stack[Len(stack)]
Effect == Resume(Top, ret)

SteppedNodes ==
  {add, mult, pred, tri, monus_helper, pair, prim_rec(zero, succ),
   prim_rec(proj(0), compose(zero, <<>>)), compose(succ, <<proj(0), proj(0)>>),
   compose(mult, <<proj(1), proj(0)>>)}
SteppedArgs == UNION {[1..m -> 0..MaxRec] : m \in 0..2}

Start ==
  /\ pc = "idle"
  /\ \E g \in SteppedNodes, a \in SteppedArgs :
       /\ f' = g
       /\ args' = a
       /\ IF AcceptsArgs(g, Len(a))
          THEN pc' = "running" /\ stack' = <<Frame(g, a)>> /\ outcome' = outcome
          ELSE pc' = "done" /\ stack' = <<>> /\ outcome' = Raise("TypeError")
  /\ UNCHANGED <<src, ret>>

StepCall ==
  /\ pc = "running"
  /\ Effect.op = "call"
  /\ AcceptsArgs(Effect.callee, Len(Effect.cargs))
  /\ stack' = Append([stack EXCEPT ![Len(stack)] = Effect.fr],
                     Frame(Effect.callee, Effect.cargs))
  /\ ret' = NoOutcome
  /\ UNCHANGED applyVars

StepReturn ==
  /\ pc = "running"
  /\ Effect.op = "return"
  /\ stack' = SubSeq(stack, 1, Len(stack) - 1)
  /\ IF Len(stack) = 1
     THEN pc' = "done" /\ outcome' = Return(Effect.val) /\ ret' = NoOutcome
     ELSE pc' = pc /\ outcome' = outcome /\ ret' = Return(Effect.val)
  /\ UNCHANGED <<f, args, src>>

\* No __call__ catches an exception: it unwinds every frame.
StepRaise ==
  /\ pc = "running"
  /\ \/ Effect.op = "raise" /\ outcome' = Raise(Effect.exc)
     \/ /\ Effect.op = "call"
        /\ ~AcceptsArgs(Effect.callee, Len(Effect.cargs))
        /\ outcome' = Raise("TypeError")
  /\ pc' = "done"
  /\ stack' = <<>>
  /\ ret' = NoOutcome
  /\ UNCHANGED <<f, args, src>>

NextStepped ==
  \/ Start
  \/ StepCall
  \/ StepReturn
  \/ StepRaise
  \/ Reset

SpecStepped == Init /\ [][NextStepped]_vars

\* The stepped evaluation ends with the outcome of the call.
SteppedAgrees == (Done /\ f \in SteppedNodes) => outcome = Call(f, args)

\* ------------------------------------------------------------------------
\* Properties
\* ------------------------------------------------------------------------
\* Python's exceptions for a call whose arguments do not fit.
ArityError(r) == Raised(r) /\ r.exc \in {"TypeError", "IndexError"}

\* h(0, xs) = base(xs); h(k+1, xs) = step(k, h(k, xs), xs)
RECURSIVE h(_, _, _, _)
h(base, step, n, xs) ==
  IF n = 0
  THEN Call(base, xs)
  ELSE LET prev == h(base, step, n - 1, xs)
       IN IF Raised(prev) THEN prev ELSE Call(step, <<n - 1, prev.val>> \o xs)

\* C1: a PrimRec node applied to (n, xs), n a natural, yields h(n, xs), where
\* h(0, xs) = base(xs) and h(k+1, xs) = step(k, h(k, xs), xs).
C1_PrimRecIsRecurrence ==
  (Done /\ f.kind = "PrimRec" /\ Len(args) >= 1 /\ args[1] >= 0)
    => outcome = h(f.base, f.step, args[1], Tail(args))

C1_Witness ==
  /\ Done /\ f.kind = "PrimRec" /\ Len(args) = 2 /\ args[1] >= 2
  /\ Returned(outcome)
  /\ outcome # Call(f.base, Tail(args))

IsBinary(p) == \A i \in 1..Len(p.values) : p.values[i] \in {0, 1}
Matches(p, n) == {k \in 0..(n - 1) : p.values[k + 1] = 1}
Least(S) == CHOOSE k \in S : \A j \in S : k <= j

\* C2: for a predicate with values in {0, 1}, bmin(p, n) is the least k < n
\* with p(k) = 1, and n when there is none.
C2_BminLeast ==
  (Done /\ f = bmin /\ IsBinary(args[1]))
    => outcome = Return(IF Matches(args[1], args[2]) = {}
                        THEN args[2]
                        ELSE Least(Matches(args[1], args[2])))

C2_Witness ==
  /\ Done /\ f = bmin /\ IsBinary(args[1])
  /\ Cardinality(Matches(args[1], args[2])) >= 2
  /\ Returned(outcome) /\ outcome.val > 0 /\ outcome.val < args[2]

InnerOutcomes(gs, a) == [i \in 1..Len(gs) |-> Call(gs[i], a)]
InnersReturn(gs, a) == \A i \in 1..Len(gs) : Returned(Call(gs[i], a))

\* C3: Compose(outer, inner_1..inner_m) applied to xs is
\* outer(inner_1(xs), ..., inner_m(xs)), every inner function applied to xs
\* itself; with m = 0 it is outer() whatever xs is.
C3_ComposeSemantics ==
  (Done /\ f.kind = "Compose")
    => LET rs == InnerOutcomes(f.gs, args)
       IN IF Len(f.gs) = 0
          THEN outcome = Call(f.f, <<>>)
          ELSE IF InnersReturn(f.gs, args)
               THEN outcome = Call(f.f, [i \in 1..Len(rs) |-> rs[i].val])
               ELSE Raised(outcome)

C3_Witness ==
  /\ Done /\ f.kind = "Compose" /\ Len(f.gs) = 2
  /\ f.gs[1] = proj(1) /\ f.gs[2] = proj(0)
  /\ Len(args) = 2 /\ args[1] # args[2]
  /\ Returned(outcome) /\ outcome.val > 0

\* C4: Proj(i) applied to more than i arguments returns the i-th of them
\* (counting from 0); applied to i arguments or fewer it raises.
C4_ProjSemantics ==
  (Done /\ f.kind = "Proj")
    => IF Len(args) > f.index
       THEN outcome = Return(args[f.index + 1])
       ELSE ArityError(outcome)

C4_Witness ==
  /\ Done /\ f.kind = "Proj" /\ f.index >= 1
  /\ Len(args) = f.index
  /\ Raised(outcome)

\* C5: a PrimRec node applied to a negative recursion argument raises and
\* returns no value.
C5_NegativeRaises ==
  (Done /\ f.kind = "PrimRec" /\ Len(args) >= 1 /\ args[1] < 0)
    => Raised(outcome)

\* The index at which the scan of bmin(p, n) stops, n if it runs to the end.
RECURSIVE ScanEnd(_, _, _)
ScanEnd(p, n, k) ==
  IF k >= n \/ p.values[k + 1] = 1 THEN k ELSE ScanEnd(p, n, k + 1)

\* C6: when the predicate returns a value other than 0 or 1 at an index the
\* scan reaches, bmin raises and returns no value.
C6_NonBinaryRaises ==
  (Done /\ f = bmin
     /\ \E k \in 0..(args[2] - 1) :
          k <= ScanEnd(args[1], args[2], 0) /\ args[1].values[k + 1] \notin {0, 1})
    => Raised(outcome)

\* The number of arguments a node is built to take.
RECURSIVE Expects(_)
Max(a, b) == IF a >= b THEN a ELSE b
MaxExpects(gs) ==
  LET n == Len(gs)
  IN CHOOSE v \in {Expects(gs[i]) : i \in 1..n} :
       \A i \in 1..n : Expects(gs[i]) <= v
Expects(g) ==
  CASE g.kind = "Zero" -> 0
    [] g.kind = "Succ" -> 1
    [] g.kind = "Proj" -> g.index + 1
    [] g.kind = "Compose" -> IF Len(g.gs) = 0 THEN 0 ELSE MaxExpects(g.gs)
    [] g.kind = "PrimRec" -> 1 + Max(Expects(g.base), Expects(g.step) - 2)

\* C7 as stated: Compose(outer, inner_1..inner_m) raises whenever outer
\* expects a number of arguments other than m, fewer or more.
C7_MismatchRaises ==
  (Done /\ f.kind = "Compose" /\ InnersReturn(f.gs, args)
     /\ Expects(f.f) # Len(f.gs))
    => ArityError(outcome)

\* The outer functions whose signature does not take m arguments.
Rejects(o, m) ==
  \/ o.kind = "Zero" /\ m # 0
  \/ o.kind = "Succ" /\ m # 1
  \/ o.kind = "Proj" /\ m <= o.index
  \/ o.kind = "PrimRec" /\ m = 0

\* C7 amended: Compose(outer, inner_1..inner_m), its inner functions having
\* returned, raises when outer is Zero and m > 0, Succ and m # 1, Proj(i) and
\* m <= i, or PrimRec and m = 0; an outer Proj(i) given m > i arguments
\* returns a value.
C7_SignatureMismatchRaises ==
  (Done /\ f.kind = "Compose" /\ InnersReturn(f.gs, args))
    => /\ Rejects(f.f, Len(f.gs)) => ArityError(outcome)
       /\ (f.f.kind = "Proj" /\ Len(f.gs) > f.f.index) => Returned(outcome)

C7_Witness ==
  /\ Done /\ f.kind = "Compose" /\ f.f = succ /\ Len(f.gs) = 2
  /\ InnersReturn(f.gs, args)
  /\ Raised(outcome)

\* C9: add(a, b) = a + b, mult(a, b) = a * b, monus(a, b) = max(0, a - b).
C9_Arithmetic ==
  (Done /\ Len(args) = 2 /\ f \in {add, mult, monus} /\ args[1] >= 0)
    => outcome = Return(CASE f = add -> args[1] + args[2]
                          [] f = mult -> args[1] * args[2]
                          [] f = monus -> IF args[1] >= args[2]
                                          THEN args[1] - args[2]
                                          ELSE 0)

C9_Witness ==
  /\ Done /\ f = monus /\ args[1] > args[2] /\ args[2] > 0
  /\ Returned(outcome) /\ outcome.val > 0

\* C10: fst(pair(a, b)) = a and snd(pair(a, b)) = b, and no other pair in
\* the range has the encoding of (a, b).
C10_PairRoundTrip ==
  /\ (Done /\ f = fst /\ src # <<>>) => outcome = Return(src[1])
  /\ (Done /\ f = snd /\ src # <<>>) => outcome = Return(src[2])
  /\ (Done /\ f = pair /\ Len(args) = 2 /\ args[1] <= MaxPair /\ args[2] <= MaxPair)
       => \A a, b \in 0..MaxPair :
            Call(pair, <<a, b>>) = outcome => <<a, b>> = args

C10_Witness ==
  /\ Done /\ f = fst /\ src # <<>>
  /\ src[1] > 0 /\ src[2] > 0
  /\ outcome = Return(src[1])

\* The nesting depth of a node tree.
RECURSIVE Height(_)
MaxHeight(gs) ==
  IF Len(gs) = 0
  THEN 0
  ELSE CHOOSE v \in {Height(gs[i]) : i \in 1..Len(gs)} :
         \A i \in 1..Len(gs) : Height(gs[i]) <= v
Height(g) ==
  CASE g.kind \in {"Zero", "Succ", "Proj"} -> 1
    [] g.kind = "Compose" -> 1 + Max(Height(g.f), MaxHeight(g.gs))
    [] g.kind = "PrimRec" -> 1 + Max(Height(g.base), Height(g.step))

\* C8: while a node is evaluated the number of active calls is at most the
\* nesting depth of its tree, whatever the recursion argument.
C8_DepthBoundedByTree == (pc = "running") => Len(stack) <= Height(f)

C8_Witness ==
  /\ pc = "running" /\ stack[1].f.kind = "PrimRec"
  /\ args[1] = MaxRec
  /\ stack[1].pc = "step" /\ stack[1].k = MaxRec - 1
  /\ Height(f) >= 3
  /\ Len(stack) = Height(f)
====
